---- MODULE Spec2Model ----
(***************************************************************************)
(* Gauss-Jordan elimination and inversion with exact rationals and an      *)
(* operation history (algebra.py, escalonamento.py).                       *)
(*                                                                         *)
(* Python lists are objects with identity, so the model keeps two heaps:   *)
(* mats[r] is an outer list (a sequence of row references) and lins[r] is  *)
(* a row list (a sequence of rationals).  A matrix variable holds a        *)
(* reference into mats.  Fractions are immutable values <<num, den>> in    *)
(* lowest terms with den > 0.  Indices are 1-based (Python index + 1).     *)
(***************************************************************************)
EXTENDS Integers, Sequences, FiniteSets, TLC

\* ------------------------------------------------------------------ bounds
MaxVal == 1
MaxChamadas == 2
MaxConstrucoes == 1

\* ------------------------------------------------------------- fractions
Abs(x) == IF x < 0 THEN -x ELSE x

RECURSIVE GCD(_, _)
GCD(a, b) == IF b = 0 THEN a ELSE GCD(b, a % b)

\* Fraction(n, d) for integers n, d with d # 0: lowest terms, den > 0.
Fr(n, d) ==
    LET g == GCD(Abs(n), Abs(d))
        s == IF d < 0 THEN -1 ELSE 1
    IN  <<(s * n) \div g, (s * d) \div g>>

Zero == Fr(0, 1)
Um == Fr(1, 1)

FrAdd(a, b) == Fr(a[1] * b[2] + b[1] * a[2], a[2] * b[2])
FrSub(a, b) == Fr(a[1] * b[2] - b[1] * a[2], a[2] * b[2])
FrMul(a, b) == Fr(a[1] * b[1], a[2] * b[2])
FrNeg(a) == <<-a[1], a[2]>>
FrAbs(a) == <<Abs(a[1]), a[2]>>
\* a / b, b # 0  (Fraction(a, b) on two rationals, Fr(1) / b)
FrDiv(a, b) == Fr(a[1] * b[2], a[2] * b[1])
FrGt(a, b) == a[1] * b[2] > b[1] * a[2]

\* ------------------------------------------------------------------ state
VARIABLES
    mats,        \* heap of outer lists: mats[r] = sequence of row references
    lins,        \* heap of row lists:   lins[r] = sequence of fractions
    M,           \* the caller's input matrix (reference into mats)
    matriz,      \* self.matriz
    historico,   \* self.historico
    pivos,       \* self.pivos
    pc,          \* position inside the running call, "idle" between calls
    loc,         \* local variables of the running call
    resultado,   \* what the last finished call returned
    erro,        \* the exception the last finished call raised, "" if none
    processo,    \* ProcessoEscalonamento: [passo_atual, historico]
    fonte,       \* the caller's matrix the current engine was built from
    verificacao, \* what verificar_inversa returned: [ok, produto]
    chamadas,    \* number of top-level calls started
    construcoes, \* number of engines built after the first
    ultima,      \* name of the last call started
    M0,          \* history: value of the caller's matrix at the start
    antes,       \* history: engine state when the running/last call started
    invM0,       \* history: inverse returned for an engine that held M0
    postos,      \* history: (permutation start value, rank) of finished runs
    direta,      \* history: the last direct call of a row primitive
    io           \* the input paths: what was typed, what was read from it

vars == <<mats, lins, M, matriz, historico, pivos, pc, loc, resultado, erro,
          processo, fonte, verificacao, chamadas, construcoes, ultima, M0, antes, invM0, postos,
          direta, io>>

\* The value of the matrix object mat: a sequence of rows of fractions.
Valor(h, mat) == [i \in 1..Len(h.mats[mat]) |-> h.lins[h.mats[mat][i]]]

\* The engine object together with the heaps it lives in.
Self == [mats |-> mats, lins |-> lins, matriz |-> matriz,
         historico |-> historico, pivos |-> pivos, chamada |-> chamadas]

Commit(s) ==
    /\ mats' = s.mats
    /\ lins' = s.lins
    /\ matriz' = s.matriz
    /\ historico' = s.historico
    /\ pivos' = s.pivos

\* A new list of lists holding the rows v, each row a new list.
NovaMatriz(h, v) ==
    LET n == Len(v)
        base == Len(h.lins)
    IN  [h EXCEPT !.lins = h.lins \o v,
                  !.mats = Append(h.mats, [i \in 1..n |-> base + i])]

\* a variant that keeps the caller's list instead of rebuilding it
MatrizEscada_init_alias(h, origem) ==
    [mats |-> h.mats, lins |-> h.lins, matriz |-> origem,
     historico |-> <<>>, pivos |-> <<>>]

\* MatrizEscada.__init__: every row is rebuilt as a new list of Fr(valor).
MatrizEscada_init(h, origem) ==
    LET v == [i \in 1..Len(h.mats[origem]) |->
                 [j \in 1..Len(h.lins[h.mats[origem][i]]) |->
                     Fr(h.lins[h.mats[origem][i]][j][1], h.lins[h.mats[origem][i]][j][2])]]
        h2 == NovaMatriz(h, v)
    IN  [mats |-> h2.mats, lins |-> h2.lins, matriz |-> Len(h2.mats),
         historico |-> <<>>, pivos |-> <<>>]

\* ------------------------------------------------- MatrizEscada primitives
registrar_operacao(s, operacao) ==
    [s EXCEPT !.historico = Append(s.historico, operacao)]

\* a variant that copies only the outer list: list(self.matriz)
matriz_copia_rasa(s) ==
    [mats |-> Append(s.mats, s.mats[s.matriz]), lins |-> s.lins,
     ret |-> Len(s.mats) + 1]

\* [linha[:] for linha in self.matriz]: returns the new reference in .ret
matriz_copia(s) ==
    LET h2 == NovaMatriz(s, Valor(s, s.matriz))
    IN  [mats |-> h2.mats, lins |-> h2.lins, ret |-> Len(h2.mats)]

\* a variant that lets a later row of equal size win
RECURSIVE VarrePivo_ultimo(_, _, _, _, _)
VarrePivo_ultimo(v, coluna, r, max_row, max_val) ==
    IF r > Len(v) THEN max_row
    ELSE IF ~FrGt(max_val, FrAbs(v[r][coluna]))
         THEN VarrePivo_ultimo(v, coluna, r + 1, r, FrAbs(v[r][coluna]))
         ELSE VarrePivo_ultimo(v, coluna, r + 1, max_row, max_val)

RECURSIVE VarrePivo(_, _, _, _, _)
VarrePivo(v, coluna, r, max_row, max_val) ==
    IF r > Len(v) THEN max_row
    ELSE IF FrGt(FrAbs(v[r][coluna]), max_val)
         THEN VarrePivo(v, coluna, r + 1, r, FrAbs(v[r][coluna]))
         ELSE VarrePivo(v, coluna, r + 1, max_row, max_val)

\* a variant without the scan of lines 29-33
encontrar_pivo_sem_busca(s, coluna, linha_inicio) ==
    LET v == Valor(s, s.matriz)
    IN  IF coluna > Len(v[1]) \/ linha_inicio > Len(v) THEN -1 ELSE linha_inicio

encontrar_pivo(s, coluna, linha_inicio) ==
    LET v == Valor(s, s.matriz)
    IN  IF coluna > Len(v[1]) \/ linha_inicio > Len(v) THEN -1
        ELSE VarrePivo(v, coluna, linha_inicio + 1, linha_inicio,
                       FrAbs(v[linha_inicio][coluna]))

\* a variant that copies linha2 over linha1 instead of exchanging them
trocar_linhas_copia(s, linha1, linha2) ==
    IF linha1 # linha2
    THEN [s EXCEPT !.mats[s.matriz] = [@ EXCEPT ![linha1] = s.mats[s.matriz][linha2]]]
    ELSE s

trocar_linhas(s, linha1, linha2) ==
    IF linha1 # linha2
    THEN [s EXCEPT !.mats[s.matriz] =
                      [@ EXCEPT ![linha1] = s.mats[s.matriz][linha2],
                                ![linha2] = s.mats[s.matriz][linha1]]]
    ELSE s

\* self.matriz[linha] = nova: the row slot is rebound to a new list.
NovaLinha(s, linha, nova) ==
    [s EXCEPT !.lins = Append(s.lins, nova),
              !.mats[s.matriz][linha] = Len(s.lins) + 1]

\* a variant that scales by zero as well
multiplicar_linha_sem_guarda(s, linha, escalar) ==
    LET v == Valor(s, s.matriz)
    IN  NovaLinha(s, linha, [j \in 1..Len(v[linha]) |-> FrMul(v[linha][j], escalar)])

multiplicar_linha(s, linha, escalar) ==
    IF escalar # Zero
    THEN LET v == Valor(s, s.matriz)
         IN  NovaLinha(s, linha, [j \in 1..Len(v[linha]) |-> FrMul(v[linha][j], escalar)])
    ELSE s

\* a variant that adds the source row without the factor
combinar_linha_sem_escalar(s, linha_alvo, linha_origem, escalar) ==
    IF escalar # Zero
    THEN LET v == Valor(s, s.matriz)
         IN  NovaLinha(s, linha_alvo,
                 [j \in 1..Len(v[linha_alvo]) |->
                     FrAdd(v[linha_alvo][j], v[linha_origem][j])])
    ELSE s

combinar_linha(s, linha_alvo, linha_origem, escalar) ==
    IF escalar # Zero
    THEN LET v == Valor(s, s.matriz)
         IN  NovaLinha(s, linha_alvo,
                 [j \in 1..Len(v[linha_alvo]) |->
                     FrAdd(v[linha_alvo][j], FrMul(escalar, v[linha_origem][j]))])
    ELSE s

\* lines 260-266: the numerals printed for a fraction, "n" or "n/d"
formatar_valor(valor) ==
    IF valor[2] = 1 THEN <<valor[1]>> ELSE <<valor[1], valor[2]>>

\* registrar_operacao({'tipo': 'matriz', ..., 'matriz': self.matriz_copia()})
\* chamada and valor are history fields: the call that logged the entry and
\* the value of the working matrix at that instant.
RegMatriz(s, descricao) ==
    LET c == matriz_copia(s)
    IN  registrar_operacao([s EXCEPT !.mats = c.mats, !.lins = c.lins],
            [tipo |-> "matriz", descricao |-> descricao, matriz |-> c.ret,
             chamada |-> s.chamada, valor |-> Valor(s, s.matriz)])

\* a variant that logs no step marker
RegPasso_mudo(s, descricao) == s

RegPasso(s, descricao) ==
    registrar_operacao(s,
        [tipo |-> "passo", descricao |-> descricao, matriz |-> 0,
         chamada |-> s.chamada, valor |-> <<>>])

\* ------------------------------------------------------------------ inputs
Int2Fr(x) == Fr(x, 1)
DeInteiros(m) == [i \in 1..Len(m) |-> [j \in 1..Len(m[i]) |-> Int2Fr(m[i][j])]]

\* every 2x2 matrix with integer entries in -1..MaxVal
Gerada2x2 ==
    {DeInteiros(<<<<a, b>>, <<c, d>>>>) : a, b, c, d \in (-1)..MaxVal}

\* the matrices of exemplo_teste.py and a few rank-deficient / non-square ones
Exemplos ==
    {DeInteiros(<<<<2, 1, -1, 8>>, <<-3, -1, 2, -11>>, <<-2, 1, 2, -3>>>>),
     DeInteiros(<<<<2, 1, 1>>, <<1, 3, 2>>, <<1, 0, 0>>>>),
     DeInteiros(<<<<1, 2, 3>>, <<4, 5, 6>>, <<7, 8, 9>>>>),
     <<<<Fr(1, 2), Fr(1, 3)>>, <<Fr(1, 4), Fr(1, 5)>>>>,
     DeInteiros(<<<<1, 2>>, <<3, 4>>>>),
     DeInteiros(<<<<0, 0, 2>>, <<0, 3, 3>>, <<0, -3, 1>>>>),
     DeInteiros(<<<<0, 2>>, <<1, 1>>, <<-1, 3>>>>),
     DeInteiros(<<<<0, 1, 2>>, <<0, 2, 4>>>>),
     DeInteiros(<<<<0, 1, 1>>, <<2, 0, 1>>, <<-2, 3, 0>>>>),
     DeInteiros(<<<<3>>>>),
     <<>>}

Entradas == Gerada2x2 \cup Exemplos

SemLocais ==
    [pivot_linha |-> 0, pivot_col |-> 0, passo |-> 0, i |-> 0, k |-> 0,
     idx |-> 0, matriz_original |-> 0, A |-> 0, linha_pivo |-> 0, j |-> 0,
     pivo |-> Zero, max_row |-> 0, pivo_linha |-> 0, visto |-> <<>>]

\* No row primitive has been called directly yet.
SemDireta ==
    [nome |-> "", args |-> <<>>, retorno |-> FALSE, valores |-> <<>>]

\* Nothing has been typed yet.
SemEntrada ==
    [via |-> "", texto |-> <<>>, lida |-> <<>>, nada |-> FALSE, relatos |-> {}, motor |-> FALSE]

\* What is remembered of the moment a call starts: the engine's fields, the
\* value of the caller's matrix, the call's number and the heap sizes.
Foto(s, f, id) ==
    [matriz |-> Valor(s, s.matriz), ref |-> s.matriz,
     historico |-> s.historico, pivos |-> s.pivos,
     fonte |-> Valor(s, f), id |-> id,
     nmats |-> Len(s.mats), nlins |-> Len(s.lins)]

Init ==
    \E v \in Entradas :
        LET h0 == NovaMatriz([mats |-> <<>>, lins |-> <<>>], v)
            e == MatrizEscada_init(h0, Len(h0.mats))
        IN  /\ mats = e.mats
            /\ lins = e.lins
            /\ M = Len(h0.mats)
            /\ matriz = e.matriz
            /\ historico = e.historico
            /\ pivos = e.pivos
            /\ pc = "idle"
            /\ loc = SemLocais
            /\ resultado = 0
            /\ erro = ""
            /\ processo = [passo_atual |-> 0, historico |-> <<>>]
            /\ fonte = Len(h0.mats)
            /\ verificacao = [ok |-> FALSE, produto |-> 0]
            /\ chamadas = 0
            /\ construcoes = 0
            /\ ultima = ""
            /\ M0 = v
            /\ antes = Foto(e, Len(h0.mats), 0)
            /\ invM0 = <<>>
            /\ postos = {}
            /\ direta = SemDireta
            /\ io = SemEntrada

\* ------------------------------------------------- MatrizEscada.escalonar
Linhas(s) == Len(s.mats[s.matriz])
Colunas(s) == Len(s.lins[s.mats[s.matriz][1]])
Cel(s, i, j) == s.lins[s.mats[s.matriz][i]][j]

\* a variant that resets the pivots only
reinicia_so_pivos(s) == [s EXCEPT !.pivos = <<>>]

\* lines 59-60: self.historico = []; self.pivos = []
reinicia(s) == [s EXCEPT !.historico = <<>>, !.pivos = <<>>]

\* a variant that logs the initial snapshot before it looks at the size
escalonar_inicio_sem_retorno ==
    /\ pc = "idle"
    /\ chamadas < MaxChamadas
    /\ chamadas' = chamadas + 1
    /\ ultima' = "escalonar"
    /\ antes' = Foto(Self, fonte, chamadas + 1)
    /\ erro' = ""
    /\ LET s0 == reinicia([Self EXCEPT !.chamada = chamadas + 1])
       IN  /\ Commit(RegMatriz(s0, <<"Matriz inicial:">>))
           /\ IF Linhas(s0) = 0
              THEN /\ resultado' = s0.matriz
                   /\ pc' = "idle"
                   /\ loc' = SemLocais
              ELSE /\ resultado' = 0
                   /\ pc' = "esc_laco"
                   /\ loc' = [SemLocais EXCEPT !.pivot_linha = 1, !.pivot_col = 1,
                                               !.passo = 1]
    /\ UNCHANGED <<direta, io, M, processo, fonte, verificacao, construcoes, M0, invM0, postos>>

\* lines 58-73: reset, empty-matrix return, initial snapshot
escalonar_inicio ==
    /\ pc = "idle"
    /\ chamadas < MaxChamadas
    /\ chamadas' = chamadas + 1
    /\ ultima' = "escalonar"
    /\ antes' = Foto(Self, fonte, chamadas + 1)
    /\ erro' = ""
    /\ LET s0 == reinicia([Self EXCEPT !.chamada = chamadas + 1])
       IN  IF Linhas(s0) = 0
           THEN /\ Commit(s0)
                /\ resultado' = s0.matriz
                /\ pc' = "idle"
                /\ loc' = SemLocais
           ELSE /\ Commit(RegMatriz(s0, <<"Matriz inicial:">>))
                /\ resultado' = 0
                /\ pc' = "esc_laco"
                /\ loc' = [SemLocais EXCEPT !.pivot_linha = 1, !.pivot_col = 1,
                                            !.passo = 1]
    /\ UNCHANGED <<direta, io, M, processo, fonte, verificacao, construcoes, M0, invM0, postos>>

\* a variant that leaves the row as well when the column holds no pivot
escalonar_pivo_avanca_linha ==
    /\ pc = "esc_laco"
    /\ loc.pivot_linha <= Linhas(Self)
    /\ loc.pivot_col <= Colunas(Self)
    /\ LET s1 == RegPasso(Self, <<"PASSO (Fase descendente)", loc.passo>>)
           max_row == encontrar_pivo(s1, loc.pivot_col, loc.pivot_linha)
       IN  IF max_row = -1 \/ Cel(s1, max_row, loc.pivot_col) = Zero
           THEN /\ Commit(s1)
                /\ loc' = [loc EXCEPT !.passo = @ + 1, !.pivot_col = @ + 1,
                                      !.pivot_linha = @ + 1]
                /\ pc' = "esc_laco"
           ELSE /\ IF max_row # loc.pivot_linha
                   THEN Commit(RegMatriz(trocar_linhas(s1, loc.pivot_linha, max_row),
                                   <<"Operacao I: Permuta", loc.pivot_linha, max_row>>))
                   ELSE Commit(s1)
                /\ loc' = [loc EXCEPT !.passo = @ + 1, !.max_row = max_row,
                                      !.visto = Valor(s1, s1.matriz)]
                /\ pc' = "esc_norm"
    /\ UNCHANGED <<direta, io, M, resultado, erro, processo, fonte, verificacao, chamadas, construcoes, ultima,
                   M0, antes, invM0, postos>>

\* lines 75-91: one turn of the while loop up to the permutation
escalonar_pivo ==
    /\ pc = "esc_laco"
    /\ loc.pivot_linha <= Linhas(Self)
    /\ loc.pivot_col <= Colunas(Self)
    /\ LET s1 == RegPasso(Self, <<"PASSO (Fase descendente)", loc.passo>>)
           max_row == encontrar_pivo(s1, loc.pivot_col, loc.pivot_linha)
       IN  IF max_row = -1 \/ Cel(s1, max_row, loc.pivot_col) = Zero
           THEN /\ Commit(s1)
                /\ loc' = [loc EXCEPT !.passo = @ + 1, !.pivot_col = @ + 1]
                /\ pc' = "esc_laco"
           ELSE /\ IF max_row # loc.pivot_linha
                   THEN Commit(RegMatriz(trocar_linhas(s1, loc.pivot_linha, max_row),
                                   <<"Operacao I: Permuta", loc.pivot_linha, max_row>>))
                   ELSE Commit(s1)
                /\ loc' = [loc EXCEPT !.passo = @ + 1, !.max_row = max_row,
                                      !.visto = Valor(s1, s1.matriz)]
                /\ pc' = "esc_norm"
    /\ UNCHANGED <<direta, io, M, resultado, erro, processo, fonte, verificacao, chamadas, construcoes, ultima,
                   M0, antes, invM0, postos>>

\* lines 111-112 when the for loop of lines 102-110 is exhausted
AvancaOuElimina(l, prox) ==
    IF prox > Linhas(Self)
    THEN /\ loc' = [l EXCEPT !.pivot_linha = @ + 1, !.pivot_col = @ + 1, !.i = 0]
         /\ pc' = "esc_laco"
    ELSE /\ loc' = [l EXCEPT !.i = prox]
         /\ pc' = "esc_elim"

\* lines 92-101: normalisation of the pivot row, pivot recorded
escalonar_normaliza ==
    /\ pc = "esc_norm"
    /\ LET pivot_val == Cel(Self, loc.pivot_linha, loc.pivot_col)
           escalar == IF pivot_val # Zero THEN FrDiv(Um, pivot_val) ELSE Zero
           s1 == IF pivot_val # Um
                 THEN RegMatriz(multiplicar_linha(Self, loc.pivot_linha, escalar),
                          <<"Operacao II: Normalizacao", loc.pivot_linha, formatar_valor(escalar)>>)
                 ELSE Self
       IN  Commit([s1 EXCEPT !.pivos = Append(@, <<loc.pivot_linha, loc.pivot_col>>)])
    /\ AvancaOuElimina(loc, loc.pivot_linha + 1)
    /\ UNCHANGED <<direta, io, M, resultado, erro, processo, fonte, verificacao, chamadas, construcoes, ultima,
                   M0, antes, invM0, postos>>

\* lines 102-110: one row below the pivot
escalonar_elimina ==
    /\ pc = "esc_elim"
    /\ LET e == Cel(Self, loc.i, loc.pivot_col)
           escalar == FrNeg(e)
       IN  IF e # Zero
           THEN Commit(RegMatriz(combinar_linha(Self, loc.i, loc.pivot_linha, escalar),
                           <<"Operacao III: Eliminacao", loc.i, formatar_valor(escalar),
                             loc.pivot_linha>>))
           ELSE Commit(Self)
    /\ AvancaOuElimina(loc, loc.i + 1)
    /\ UNCHANGED <<direta, io, M, resultado, erro, processo, fonte, verificacao, chamadas, construcoes, ultima,
                   M0, antes, invM0, postos>>

\* reversed(self.pivos) x range(linha - 1, -1, -1): the next (idx, i) at or
\* before pivot idx that has a row above it; idx = 0 when none is left
\* a variant that finds no row above any pivot
ProximoPivo_nenhum(pv, idx) == <<0, 0>>

RECURSIVE ProximoPivo(_, _)
ProximoPivo(pv, idx) ==
    IF idx = 0 THEN <<0, 0>>
    ELSE IF pv[idx][1] > 1 THEN <<idx, pv[idx][1] - 1>>
         ELSE ProximoPivo(pv, idx - 1)

IrParaSub(l, prox) ==
    IF prox[1] = 0
    THEN /\ loc' = [l EXCEPT !.idx = 0, !.i = 0]
         /\ pc' = "esc_fim"
    ELSE /\ loc' = [l EXCEPT !.idx = prox[1], !.i = prox[2]]
         /\ pc' = "esc_sub"

\* lines 114-117: the while loop is over, backward phase announced
escalonar_fase_ascendente ==
    /\ pc = "esc_laco"
    /\ ~(loc.pivot_linha <= Linhas(Self) /\ loc.pivot_col <= Colunas(Self))
    /\ Commit(RegPasso(Self, <<"FASE ASCENDENTE">>))
    /\ IrParaSub(loc, ProximoPivo(pivos, Len(pivos)))
    /\ UNCHANGED <<direta, io, M, resultado, erro, processo, fonte, verificacao, chamadas, construcoes, ultima,
                   M0, antes, invM0, postos>>

\* lines 119-128: one row above one pivot
escalonar_sub ==
    /\ pc = "esc_sub"
    /\ LET linha == pivos[loc.idx][1]
           col == pivos[loc.idx][2]
           e == Cel(Self, loc.i, col)
           escalar == FrNeg(e)
       IN  IF e # Zero
           THEN Commit(RegMatriz(combinar_linha(Self, loc.i, linha, escalar),
                           <<"Operacao III: Eliminacao", loc.i, formatar_valor(escalar), linha>>))
           ELSE Commit(Self)
    /\ IrParaSub(loc, IF loc.i > 1 THEN <<loc.idx, loc.i - 1>>
                      ELSE ProximoPivo(pivos, loc.idx - 1))
    /\ UNCHANGED <<direta, io, M, resultado, erro, processo, fonte, verificacao, chamadas, construcoes, ultima,
                   M0, antes, invM0, postos>>

EhPermutacaoDe(v, w) ==
    /\ Len(v) = Len(w)
    /\ \E p \in [1..Len(v) -> 1..Len(v)] :
          /\ \A a, b \in 1..Len(v) : a # b => p[a] # p[b]
          /\ \A a \in 1..Len(v) : v[a] = w[p[a]]

\* lines 130-135: final snapshot, return self.matriz
escalonar_fim ==
    /\ pc = "esc_fim"
    /\ Commit(RegMatriz(Self, <<"Matriz na forma escalonada completa:">>))
    /\ resultado' = matriz
    /\ pc' = "idle"
    /\ loc' = SemLocais
    /\ postos' = IF EhPermutacaoDe(antes.matriz, M0)
                 THEN postos \cup {<<antes.matriz, Len(pivos)>>}
                 ELSE postos
    /\ UNCHANGED <<direta, io, M, erro, processo, fonte, verificacao, chamadas, construcoes, ultima,
                   M0, antes, invM0>>

\* ------------------------------------------ MatrizEscada.calcular_inversa
\* self.matriz[linha][j] = nova[j] for every j: the row list is updated in place
LinhaNoLugar(s, linha, nova) ==
    [s EXCEPT !.lins[s.mats[s.matriz][linha]] = nova]

Identidade(n) == [i \in 1..n |-> [j \in 1..n |-> IF i = j THEN Um ELSE Zero]]

\* a variant that lets wide matrices through
Quadrada_ou_larga(s) == Linhas(s) <= Colunas(s)

\* line 146
Quadrada(s) == Linhas(s) = Colunas(s)

\* a variant that keeps the previous log
historico_mantido(s) == s

\* line 142: self.historico = []
historico_limpo(s) == [s EXCEPT !.historico = <<>>]

\* a variant that leaves the augmented matrix in place
Restaura_esquecida(s, matriz_original) == s

\* lines 186, 253: self.matriz = matriz_original
Restaura(s, matriz_original) == [s EXCEPT !.matriz = matriz_original]

\* a variant that slices the left half
MetadeEsquerda(linha, n) == SubSeq(linha, 1, n)

\* line 243: self.matriz[i][linhas:]
MetadeDireita(linha, n) == SubSeq(linha, n + 1, 2 * n)

Falha(s, e) ==
    /\ Commit(s)
    /\ erro' = e
    /\ resultado' = 0
    /\ pc' = "idle"
    /\ loc' = SemLocais

\* lines 142-168: reset of the log, shape check, augmented matrix [A|I]
calcular_inversa_inicio ==
    /\ pc = "idle"
    /\ chamadas < MaxChamadas
    /\ chamadas' = chamadas + 1
    /\ ultima' = "calcular_inversa"
    /\ antes' = Foto(Self, fonte, chamadas + 1)
    /\ LET s0 == historico_limpo([Self EXCEPT !.chamada = chamadas + 1])
       IN  IF Linhas(s0) = 0
           THEN Falha(s0, "IndexError")
           ELSE IF ~Quadrada(s0)
           THEN Falha(s0, "NotSquare")
           ELSE LET n == Linhas(s0)
                    v == Valor(s0, s0.matriz)
                    id == Identidade(n)
                    h1 == NovaMatriz(s0, [i \in 1..n |-> v[i] \o id[i]])
                    s1 == [h1 EXCEPT !.matriz = Len(h1.mats)]
                IN  /\ Commit(RegMatriz(s1, <<"Matriz aumentada [A|I] inicial:">>))
                    /\ erro' = ""
                    /\ resultado' = 0
                    /\ pc' = "inv_laco"
                    /\ loc' = [SemLocais EXCEPT !.matriz_original = s0.matriz,
                                                !.passo = 1, !.i = 1]
    /\ UNCHANGED <<direta, io, M, processo, fonte, verificacao, construcoes, M0, invM0, postos>>

\* lines 179-182: the first row at or below i with the largest |entry|
RECURSIVE MelhorPivo(_, _, _, _)
MelhorPivo(v, i, k, pivo_linha) ==
    IF k > Len(v) THEN pivo_linha
    ELSE IF FrGt(FrAbs(v[k][i]), FrAbs(v[pivo_linha][i]))
         THEN MelhorPivo(v, i, k + 1, k)
         ELSE MelhorPivo(v, i, k + 1, pivo_linha)

\* lines 171-196: step marker, pivot search, singularity check, permutation
calcular_inversa_pivo ==
    /\ pc = "inv_laco"
    /\ loc.i <= Linhas(Self)
    /\ LET s1 == RegPasso(Self, <<"PASSO (Processando coluna)", loc.passo, loc.i>>)
           pivo_linha == MelhorPivo(Valor(s1, s1.matriz), loc.i, loc.i + 1, loc.i)
       IN  IF Cel(s1, pivo_linha, loc.i) = Zero
           THEN Falha(Restaura(s1, loc.matriz_original), "NotInvertible")
           ELSE /\ IF pivo_linha # loc.i
                   THEN Commit(RegMatriz(
                            [s1 EXCEPT !.mats[s1.matriz] =
                                [@ EXCEPT ![loc.i] = s1.mats[s1.matriz][pivo_linha],
                                          ![pivo_linha] = s1.mats[s1.matriz][loc.i]]],
                            <<"Permuta", loc.i, pivo_linha>>))
                   ELSE Commit(s1)
                /\ loc' = [loc EXCEPT !.passo = @ + 1, !.pivo_linha = pivo_linha,
                                      !.visto = Valor(s1, s1.matriz)]
                /\ pc' = "inv_norm"
                /\ UNCHANGED <<resultado, erro>>
    /\ UNCHANGED <<direta, io, M, processo, fonte, verificacao, chamadas, construcoes, ultima,
                   M0, antes, invM0, postos>>

\* end of the for loop of lines 211-220: next column
ProximaColuna(l, prox) ==
    IF prox > Linhas(Self)
    THEN /\ loc' = [l EXCEPT !.i = @ + 1, !.k = 0]
         /\ pc' = "inv_laco"
    ELSE /\ loc' = [l EXCEPT !.k = prox]
         /\ pc' = "inv_elim"

\* a variant whose inner loop is range(linhas) instead of range(2 * linhas)
SomaNoLugar_metade(s, alvo, origem, fator) ==
    LET v == Valor(s, s.matriz)
    IN  LinhaNoLugar(s, alvo,
            [j \in 1..Len(v[alvo]) |->
                IF j <= Len(v) THEN FrAdd(v[alvo][j], FrMul(fator, v[origem][j]))
                ELSE v[alvo][j]])

\* lines 214-215, 232-233: alvo <- alvo + fator * origem over all 2n columns, in place
SomaNoLugar(s, alvo, origem, fator) ==
    LET v == Valor(s, s.matriz)
    IN  LinhaNoLugar(s, alvo,
            [j \in 1..Len(v[alvo]) |-> FrAdd(v[alvo][j], FrMul(fator, v[origem][j]))])

\* lines 198-208: normalisation of row i, in place
calcular_inversa_normaliza ==
    /\ pc = "inv_norm"
    /\ LET pivot_val == Cel(Self, loc.i, loc.i)
           fator == FrDiv(Um, pivot_val)
           v == Valor(Self, matriz)
       IN  IF pivot_val # Um
           THEN Commit(RegMatriz(
                    LinhaNoLugar(Self, loc.i,
                        [j \in 1..Len(v[loc.i]) |-> FrMul(v[loc.i][j], fator)]),
                    <<"Normalizacao", loc.i, formatar_valor(fator)>>))
           ELSE Commit(Self)
    /\ ProximaColuna(loc, loc.i + 1)
    /\ UNCHANGED <<direta, io, M, resultado, erro, processo, fonte, verificacao, chamadas, construcoes, ultima,
                   M0, antes, invM0, postos>>

\* lines 211-220: one row k below the pivot
calcular_inversa_elimina ==
    /\ pc = "inv_elim"
    /\ LET e == Cel(Self, loc.k, loc.i)
           fator == FrNeg(e)
       IN  IF e # Zero
           THEN Commit(RegMatriz(SomaNoLugar(Self, loc.k, loc.i, fator),
                           <<"Eliminacao", loc.k, formatar_valor(fator), loc.i>>))
           ELSE Commit(Self)
    /\ ProximaColuna(loc, loc.k + 1)
    /\ UNCHANGED <<direta, io, M, resultado, erro, processo, fonte, verificacao, chamadas, construcoes, ultima,
                   M0, antes, invM0, postos>>

\* range(linhas - 1, 0, -1) x range(i - 1, -1, -1), one (i, k) at a time
IrParaTras(l, i, k) ==
    IF i < 2
    THEN /\ loc' = [l EXCEPT !.i = 0, !.k = 0]
         /\ pc' = "inv_fim"
    ELSE /\ loc' = [l EXCEPT !.i = i, !.k = k]
         /\ pc' = "inv_sub"

\* lines 223-226: forward loop over, backward phase announced
calcular_inversa_fase_tras ==
    /\ pc = "inv_laco"
    /\ loc.i > Linhas(Self)
    /\ Commit(RegPasso(Self, <<"FASE DE ELIMINACAO PARA TRAS">>))
    /\ IrParaTras(loc, Linhas(Self), Linhas(Self) - 1)
    /\ UNCHANGED <<direta, io, M, resultado, erro, processo, fonte, verificacao, chamadas, construcoes, ultima,
                   M0, antes, invM0, postos>>

\* lines 228-238: one row k above pivot i
calcular_inversa_sub ==
    /\ pc = "inv_sub"
    /\ LET e == Cel(Self, loc.k, loc.i)
           fator == FrNeg(e)
       IN  IF e # Zero
           THEN Commit(RegMatriz(SomaNoLugar(Self, loc.k, loc.i, fator),
                           <<"Eliminacao", loc.k, formatar_valor(fator), loc.i>>))
           ELSE Commit(Self)
    /\ IF loc.k > 1 THEN IrParaTras(loc, loc.i, loc.k - 1)
                    ELSE IrParaTras(loc, loc.i - 1, loc.i - 2)
    /\ UNCHANGED <<direta, io, M, resultado, erro, processo, fonte, verificacao, chamadas, construcoes, ultima,
                   M0, antes, invM0, postos>>

\* lines 240-255: right half extracted, logged, self.matriz restored
calcular_inversa_fim ==
    /\ pc = "inv_fim"
    /\ LET n == Linhas(Self)
           v == Valor(Self, matriz)
           inv == [i \in 1..n |-> MetadeDireita(v[i], n)]
           h1 == NovaMatriz(Self, inv)
           inversa == Len(h1.mats)
           h2 == NovaMatriz(h1, Valor(h1, inversa))
           s2 == registrar_operacao(h2,
                    [tipo |-> "matriz", descricao |-> <<"Matriz inversa extraida:">>,
                     matriz |-> Len(h2.mats), chamada |-> chamadas,
                     valor |-> Valor(h1, inversa)])
       IN  /\ Commit(Restaura(s2, loc.matriz_original))
           /\ resultado' = inversa
           /\ invM0' = IF antes.matriz = M0 THEN inv ELSE invM0
    /\ pc' = "idle"
    /\ loc' = SemLocais
    /\ UNCHANGED <<direta, io, M, erro, processo, fonte, verificacao, chamadas, construcoes, ultima,
                   M0, antes, postos>>

\* -------------------------------------------- MatrizEscada.verificar_inversa
RECURSIVE Acumula(_, _, _, _, _, _)
Acumula(a, b, i, j, k, acc) ==
    IF k > Len(a) THEN acc
    ELSE Acumula(a, b, i, j, k + 1, FrAdd(acc, FrMul(a[i][k], b[k][j])))

\* a variant that stops multiplying at the first row that differs from the
\* identity and leaves the rows after it at zero
verificar_inversa_parcial(h, matriz_original, matriz_inversa) ==
    LET a == Valor(h, matriz_original)
        b == Valor(h, matriz_inversa)
        n == Len(a)
        cheio == [i \in 1..n |-> [j \in 1..n |-> Acumula(a, b, i, j, 1, Zero)]]
        ruim(i) == \E j \in 1..n : cheio[i][j] # (IF i = j THEN Um ELSE Zero)
        produto == [i \in 1..n |-> [j \in 1..n |->
                       IF \E i0 \in 1..(i - 1) : ruim(i0) THEN Zero ELSE cheio[i][j]]]
        h1 == NovaMatriz(h, produto)
    IN  [mats |-> h1.mats, lins |-> h1.lins,
         ok |-> \A i, j \in 1..n : produto[i][j] = (IF i = j THEN Um ELSE Zero),
         produto |-> Len(h1.mats)]

\* lines 272-287: the product and its comparison with the identity
verificar_inversa(h, matriz_original, matriz_inversa) ==
    LET a == Valor(h, matriz_original)
        b == Valor(h, matriz_inversa)
        n == Len(a)
        produto == [i \in 1..n |-> [j \in 1..n |-> Acumula(a, b, i, j, 1, Zero)]]
        h1 == NovaMatriz(h, produto)
    IN  [mats |-> h1.mats, lins |-> h1.lins,
         ok |-> \A i, j \in 1..n : produto[i][j] = (IF i = j THEN Um ELSE Zero),
         produto |-> Len(h1.mats)]

\* exemplo_teste.py 66, 131: calculador.verificar_inversa(matriz, inversa)
verificar ==
    /\ pc = "idle"
    /\ chamadas < MaxChamadas
    /\ ultima = "calcular_inversa"
    /\ erro = ""
    /\ LET r == verificar_inversa(Self, fonte, resultado)
       IN  /\ mats' = r.mats
           /\ lins' = r.lins
           /\ verificacao' = [ok |-> r.ok, produto |-> r.produto]
    /\ chamadas' = chamadas + 1
    /\ ultima' = "verificar_inversa"
    /\ UNCHANGED <<direta, io, M, matriz, historico, pivos, pc, loc, resultado, erro, processo,
                   fonte, construcoes, M0, antes, invM0, postos>>

\* ------------------------------------- escalonamento.py: forma_escada_com_fracoes
\* ProcessoEscalonamento.registrar_passo: h carries the heaps and .processo
registrar_passo(h, mat, operacao) ==
    LET h1 == NovaMatriz(h, Valor(h, mat))
    IN  [h1 EXCEPT !.processo =
            [passo_atual |-> h.processo.passo_atual + 1,
             historico |-> Append(h.processo.historico,
                              [passo |-> h.processo.passo_atual + 1,
                               matriz |-> Len(h1.mats),
                               operacao |-> operacao,
                               valor |-> Valor(h, mat)])]]

Forma == [mats |-> mats, lins |-> lins, processo |-> processo]

CommitForma(h) ==
    /\ mats' = h.mats
    /\ lins' = h.lins
    /\ processo' = h.processo

CelA(i, j) == lins[mats[loc.A][i]][j]
LinhasA == Len(mats[loc.A])
ColunasA == Len(lins[mats[loc.A][1]])

\* lines 101-107: working copy A, empty-matrix return
forma_escada_inicio ==
    /\ pc = "idle"
    /\ chamadas < MaxChamadas
    /\ chamadas' = chamadas + 1
    /\ ultima' = "forma_escada"
    /\ erro' = ""
    /\ LET h1 == NovaMatriz(Forma, Valor(Forma, M))
           A == Len(h1.mats)
       IN  /\ CommitForma(h1)
           /\ IF Len(h1.mats[A]) = 0
              THEN /\ resultado' = A
                   /\ pc' = "idle"
                   /\ loc' = SemLocais
              ELSE /\ resultado' = 0
                   /\ pc' = "fe_col"
                   /\ loc' = [SemLocais EXCEPT !.A = A, !.linha_pivo = 1, !.j = 1]
    /\ UNCHANGED <<direta, io, M, matriz, historico, pivos, fonte, verificacao, construcoes,
                   M0, antes, invM0, postos>>

\* a variant that looks at row linha_pivo only
PrimeiroNaoNulo_sem_busca(v, j, i) ==
    IF i > Len(v) THEN 0
    ELSE IF v[i][j] # Zero THEN i
    ELSE 0

\* lines 114-118: the first row at or below linha_pivo with a non-zero entry, 0 if none
RECURSIVE PrimeiroNaoNulo(_, _, _)
PrimeiroNaoNulo(v, j, i) ==
    IF i > Len(v) THEN 0
    ELSE IF v[i][j] # Zero THEN i
    ELSE PrimeiroNaoNulo(v, j, i + 1)

\* a variant that goes to the normalisation without eliminating below
EliminaOuNormaliza_sem_eliminar(l, prox) ==
    /\ loc' = [l EXCEPT !.i = 0]
    /\ pc' = "fe_norm"

EliminaOuNormaliza(l, prox) ==
    IF prox > LinhasA
    THEN /\ loc' = [l EXCEPT !.i = 0]
         /\ pc' = "fe_norm"
    ELSE /\ loc' = [l EXCEPT !.i = prox]
         /\ pc' = "fe_elim"

\* lines 109-129: one column up to the permutation
forma_escada_coluna ==
    /\ pc = "fe_col"
    /\ loc.j <= ColunasA
    /\ loc.linha_pivo <= LinhasA
    /\ LET pivo_index == PrimeiroNaoNulo(Valor(Forma, loc.A), loc.j, loc.linha_pivo)
       IN  IF pivo_index = 0
           THEN /\ loc' = [loc EXCEPT !.j = @ + 1]
                /\ pc' = "fe_col"
                /\ UNCHANGED <<mats, lins, processo>>
           ELSE LET h1 == IF pivo_index # loc.linha_pivo
                          THEN registrar_passo(
                                   [Forma EXCEPT !.mats[loc.A] =
                                       [@ EXCEPT ![loc.linha_pivo] = mats[loc.A][pivo_index],
                                                 ![pivo_index] = mats[loc.A][loc.linha_pivo]]],
                                   loc.A, <<"Troca", loc.linha_pivo, pivo_index>>)
                          ELSE Forma
                IN  /\ CommitForma(h1)
                    /\ EliminaOuNormaliza(
                           [loc EXCEPT !.pivo = h1.lins[h1.mats[loc.A][loc.linha_pivo]][loc.j]],
                           loc.linha_pivo + 1)
    /\ UNCHANGED <<direta, io, M, matriz, historico, pivos, resultado, erro, fonte, verificacao,
                   chamadas, construcoes, ultima, M0, antes, invM0, postos>>

\* lines 132-142: one row below the pivot, columns j.. updated in place
forma_escada_elimina ==
    /\ pc = "fe_elim"
    /\ IF CelA(loc.i, loc.j) = Zero
       THEN UNCHANGED <<mats, lins, processo>>
       ELSE LET fator == FrDiv(CelA(loc.i, loc.j), loc.pivo)
                nova == [k \in 1..ColunasA |->
                            IF k >= loc.j
                            THEN FrSub(CelA(loc.i, k), FrMul(fator, CelA(loc.linha_pivo, k)))
                            ELSE CelA(loc.i, k)]
            IN  CommitForma(registrar_passo(
                    [Forma EXCEPT !.lins[mats[loc.A][loc.i]] = nova],
                    loc.A, <<"L <- L - fator x L", loc.i, fator, loc.linha_pivo>>))
    /\ EliminaOuNormaliza(loc, loc.i + 1)
    /\ UNCHANGED <<direta, io, M, matriz, historico, pivos, resultado, erro, fonte, verificacao,
                   chamadas, construcoes, ultima, M0, antes, invM0, postos>>

\* lines 145-151: the pivot row divided by the pivot, in place
forma_escada_normaliza ==
    /\ pc = "fe_norm"
    /\ IF loc.pivo # Um
       THEN LET nova == [k \in 1..ColunasA |->
                            IF k >= loc.j
                            THEN FrDiv(CelA(loc.linha_pivo, k), loc.pivo)
                            ELSE CelA(loc.linha_pivo, k)]
            IN  CommitForma(registrar_passo(
                    [Forma EXCEPT !.lins[mats[loc.A][loc.linha_pivo]] = nova],
                    loc.A, <<"Normaliza", loc.linha_pivo, loc.pivo>>))
       ELSE UNCHANGED <<mats, lins, processo>>
    /\ loc' = [loc EXCEPT !.linha_pivo = @ + 1, !.j = @ + 1]
    /\ pc' = "fe_col"
    /\ UNCHANGED <<direta, io, M, matriz, historico, pivos, resultado, erro, fonte, verificacao,
                   chamadas, construcoes, ultima, M0, antes, invM0, postos>>

\* lines 110-111, 153-154: loop over, final step logged, A returned
forma_escada_fim ==
    /\ pc = "fe_col"
    /\ ~(loc.j <= ColunasA /\ loc.linha_pivo <= LinhasA)
    /\ CommitForma(registrar_passo(Forma, loc.A, <<"FORMA DE ESCADA FINAL">>))
    /\ resultado' = loc.A
    /\ pc' = "idle"
    /\ loc' = SemLocais
    /\ UNCHANGED <<direta, io, M, matriz, historico, pivos, erro, fonte, verificacao,
                   chamadas, construcoes, ultima, M0, antes, invM0, postos>>

\* ------------------------------------------------------ a new engine
Permutacoes(n) ==
    {p \in [1..n -> 1..n] : \A a, b \in 1..n : a # b => p[a] # p[b]}

NovoMotor(h, origem) ==
    LET e == MatrizEscada_init(h, origem)
    IN  /\ Commit(e)
        /\ fonte' = origem
        /\ antes' = Foto(e, origem, 0)
        /\ construcoes' = construcoes + 1
        /\ ultima' = "construir"
        /\ UNCHANGED <<direta, io, M, pc, loc, resultado, erro, processo, verificacao,
                       chamadas, M0, invM0, postos>>

\* MatrizEscada([M[p[0]], M[p[1]], ...]): the caller permutes its rows
construir_permutada(p) ==
    /\ pc = "idle"
    /\ construcoes < MaxConstrucoes
    /\ \E a \in DOMAIN p : p[a] # a
    /\ NovoMotor([mats |-> Append(mats, [a \in DOMAIN p |-> mats[M][p[a]]]),
                  lins |-> lins], Len(mats) + 1)

\* MatrizEscada(inversa): an engine built from the matrix the last call returned
construir_de_resultado ==
    /\ pc = "idle"
    /\ construcoes < MaxConstrucoes
    /\ resultado # 0
    /\ ultima \in {"escalonar", "calcular_inversa"}
    /\ NovoMotor([mats |-> mats, lins |-> lins], resultado)

Next ==
    \/ escalonar_inicio
    \/ escalonar_pivo
    \/ escalonar_normaliza
    \/ escalonar_elimina
    \/ escalonar_fase_ascendente
    \/ escalonar_sub
    \/ escalonar_fim
    \/ calcular_inversa_inicio
    \/ calcular_inversa_pivo
    \/ calcular_inversa_normaliza
    \/ calcular_inversa_elimina
    \/ calcular_inversa_fase_tras
    \/ calcular_inversa_sub
    \/ calcular_inversa_fim
    \/ verificar
    \/ forma_escada_inicio
    \/ forma_escada_coluna
    \/ forma_escada_elimina
    \/ forma_escada_normaliza
    \/ forma_escada_fim
    \/ \E p \in Permutacoes(Len(mats[M])) : construir_permutada(p)
    \/ construir_de_resultado

Spec == Init /\ [][Next]_vars

\* ------------------------------------------------------ the input paths
MaxTexto == 4

\* One typed element: an integer numeral, a fraction "n/d", something that is
\* no number, or a field left empty.
Celula(t, n, d) == [t |-> t, n |-> n, d |-> d]

Celulas ==
    {Celula("int", 1, 1), Celula("frac", 1, 2), Celula("frac", 1, 0),
     Celula("lixo", 0, 0), Celula("vazio", 0, 0)}

\* every text of at most n elements, typed row by row
RECURSIVE Textos(_)
Textos(n) ==
    {<<>>} \cup
    UNION {{<<linha>> \o resto : linha \in [1..k -> Celulas], resto \in Textos(n - k)} :
              k \in 1..n}

Maior(S) == CHOOSE x \in S : \A y \in S : y <= x

Retangular(v) == \A a, b \in 1..Len(v) : Len(v[a]) = Len(v[b])

\* the places of the typed elements
Posicoes(texto) ==
    {p \in (1..Len(texto)) \X (1..MaxTexto) : p[2] <= Len(texto[p[1]])}

\* a variant that takes n/0 for 0 without a word
LerElemento_calado(c) ==
    IF c.t = "frac" /\ c.d # 0 THEN [valor |-> Fr(c.n, c.d), erro |-> ""]
    ELSE IF c.t = "int" THEN [valor |-> Fr(c.n, 1), erro |-> ""]
    ELSE IF c.t = "frac" THEN [valor |-> Zero, erro |-> ""]
    ELSE [valor |-> Zero, erro |-> "invalido"]

\* escalonamento.py lines 67-83: one element; any exception is printed and
\* the element becomes Fraction(0)
LerElemento(c) ==
    IF c.t = "frac"
    THEN IF c.d = 0
         THEN [valor |-> Zero, erro |-> "Denominador zero"]
         ELSE [valor |-> Fr(c.n, c.d), erro |-> ""]
    ELSE IF c.t = "int" THEN [valor |-> Fr(c.n, 1), erro |-> ""]
    ELSE [valor |-> Zero, erro |-> "invalido"]

\* escalonamento.py lines 87-92: short rows are filled with Fraction(0)
Preenche(v) ==
    IF v = <<>> THEN v
    ELSE LET num_colunas == Maior({Len(v[i]) : i \in 1..Len(v)})
         IN  [i \in 1..Len(v) |->
                 [j \in 1..num_colunas |-> IF j <= Len(v[i]) THEN v[i][j] ELSE Zero]]

\* escalonamento.py ler_matriz_simples: the matrix read and what was printed
ler_matriz_simples(texto) ==
    [matriz |-> Preenche([i \in 1..Len(texto) |->
                    [j \in 1..Len(texto[i]) |-> LerElemento(texto[i][j]).valor]]),
     relatos |-> {<<p[1], p[2], LerElemento(texto[p[1]][p[2]]).erro>> :
                     p \in {q \in Posicoes(texto) :
                               LerElemento(texto[q[1]][q[2]]).erro # ""}}]

\* interface.py lines 368-385: one field; an empty field counts as "0"
ObterElemento(c) ==
    IF c.t = "vazio" THEN [valor |-> Zero, erro |-> ""]
    ELSE IF c.t = "frac"
    THEN IF c.d # 0
         THEN [valor |-> Fr(c.n, c.d), erro |-> ""]
         ELSE [valor |-> Zero, erro |-> "Denominador zero"]
    ELSE IF c.t = "int" THEN [valor |-> Fr(c.n, 1), erro |-> ""]
    ELSE [valor |-> Zero, erro |-> "invalido"]

\* interface.py obter_matriz: the first bad field, row by row, ends the
\* reading with a message box and None
obter_matriz(texto) ==
    LET ruins == {p \in Posicoes(texto) : ObterElemento(texto[p[1]][p[2]]).erro # ""}
    IN  IF ruins = {}
        THEN [nada |-> FALSE, relatos |-> {},
              matriz |-> [i \in 1..Len(texto) |->
                             [j \in 1..Len(texto[i]) |-> ObterElemento(texto[i][j]).valor]]]
        ELSE LET p == CHOOSE q \in ruins : \A r \in ruins :
                          q[1] < r[1] \/ (q[1] = r[1] /\ q[2] <= r[2])
             IN  [nada |-> TRUE, matriz |-> <<>>,
                  relatos |-> {<<p[1], p[2], ObterElemento(texto[p[1]][p[2]]).erro>>}]

SemFoto ==
    [matriz |-> <<>>, ref |-> 0, historico |-> <<>>, pivos |-> <<>>,
     fonte |-> <<>>, id |-> 0, nmats |-> 0, nlins |-> 0]

\* before anything is read: no matrix, no engine, a text waiting
InitEntrada ==
    /\ io \in {[SemEntrada EXCEPT !.texto = t] : t \in Textos(MaxTexto)}
    /\ mats = <<>>
    /\ lins = <<>>
    /\ M = 0
    /\ matriz = 0
    /\ historico = <<>>
    /\ pivos = <<>>
    /\ pc = "idle"
    /\ loc = SemLocais
    /\ resultado = 0
    /\ erro = ""
    /\ processo = [passo_atual |-> 0, historico |-> <<>>]
    /\ fonte = 0
    /\ verificacao = [ok |-> FALSE, produto |-> 0]
    /\ chamadas = 0
    /\ construcoes = 0
    /\ ultima = ""
    /\ M0 = <<>>
    /\ antes = SemFoto
    /\ invM0 = <<>>
    /\ postos = {}
    /\ direta = SemDireta

SemVazios(texto) ==
    \A i \in 1..Len(texto) : \A j \in 1..Len(texto[i]) : texto[i][j].t # "vazio"

\* escalonamento.py main, lines 161-168: read, stop on the empty matrix,
\* else log it as "Matriz original"; forma_escada_com_fracoes follows
main_console ==
    /\ io.via = ""
    /\ SemVazios(io.texto)
    /\ LET r == ler_matriz_simples(io.texto)
           h1 == NovaMatriz(Forma, r.matriz)
       IN  /\ io' = [io EXCEPT !.via = "console", !.lida = r.matriz,
                               !.relatos = r.relatos, !.nada = (r.matriz = <<>>)]
           /\ M' = Len(h1.mats)
           /\ M0' = r.matriz
           /\ IF r.matriz = <<>>
              THEN CommitForma(h1)
              ELSE CommitForma(registrar_passo(h1, Len(h1.mats), <<"Matriz original">>))
    /\ UNCHANGED <<direta, matriz, historico, pivos, pc, loc, resultado, erro, fonte,
                   verificacao, chamadas, construcoes, ultima, antes, invM0, postos>>

\* interface.py realizar_escalonamento, lines 396-401: read the fields, give
\* up on None, else build the engine and keep a copy; escalonar() follows
realizar_escalonamento ==
    /\ io.via = ""
    /\ io.texto # <<>>
    /\ Retangular(io.texto)
    /\ LET r == obter_matriz(io.texto)
           h1 == NovaMatriz([mats |-> mats, lins |-> lins], r.matriz)
           e == MatrizEscada_init(h1, Len(h1.mats))
           e2 == NovaMatriz(e, r.matriz)
       IN  IF r.nada
           THEN /\ io' = [io EXCEPT !.via = "gui", !.nada = TRUE, !.relatos = r.relatos]
                /\ UNCHANGED <<mats, lins, matriz, historico, pivos, M, M0, fonte, antes>>
           ELSE /\ io' = [io EXCEPT !.via = "gui", !.lida = r.matriz, !.motor = TRUE]
                /\ Commit(e2)
                /\ M' = Len(h1.mats)
                /\ M0' = r.matriz
                /\ fonte' = Len(h1.mats)
                /\ antes' = Foto(e2, Len(h1.mats), 0)
    /\ UNCHANGED <<direta, pc, loc, resultado, erro, processo, verificacao, chamadas,
                   construcoes, ultima, invM0, postos>>

Numero(c) == c.t = "int" \/ (c.t = "frac" /\ c.d # 0)

\* MatrizEscada(rows) called on a list of lists of numbers as written, the
\* rows of any lengths
construir_direto ==
    /\ io.via = ""
    /\ io.texto # <<>>
    /\ \A i \in 1..Len(io.texto) : \A j \in 1..Len(io.texto[i]) : Numero(io.texto[i][j])
    /\ LET v == [i \in 1..Len(io.texto) |->
                    [j \in 1..Len(io.texto[i]) |-> <<io.texto[i][j].n, io.texto[i][j].d>>]]
           h1 == NovaMatriz([mats |-> mats, lins |-> lins], v)
           e == MatrizEscada_init(h1, Len(h1.mats))
       IN  /\ io' = [io EXCEPT !.via = "direto", !.lida = v, !.motor = TRUE]
           /\ Commit(e)
           /\ M' = Len(h1.mats)
           /\ M0' = v
           /\ fonte' = Len(h1.mats)
           /\ antes' = Foto(e, Len(h1.mats), 0)
    /\ UNCHANGED <<direta, pc, loc, resultado, erro, processo, verificacao, chamadas,
                   construcoes, ultima, invM0, postos>>

NextEntrada ==
    \/ main_console
    \/ realizar_escalonamento
    \/ construir_direto
    \/ (io.via = "console" /\ ~io.nada /\ chamadas = 0 /\ forma_escada_inicio)
    \/ forma_escada_coluna
    \/ forma_escada_elimina
    \/ forma_escada_normaliza
    \/ forma_escada_fim
    \/ (io.via = "gui" /\ ~io.nada /\ chamadas = 0 /\ escalonar_inicio)
    \/ escalonar_pivo
    \/ escalonar_normaliza
    \/ escalonar_elimina
    \/ escalonar_fase_ascendente
    \/ escalonar_sub
    \/ escalonar_fim

SpecEntrada == InitEntrada /\ [][NextEntrada]_vars

\* --------------------------------------- the public methods called directly
Fatores == {Zero, Fr(-1, 2)}

\* lines 37-40, 43-46, 49-56: what the three methods return
trocar_linhas_retorno(linha1, linha2) == linha1 # linha2
multiplicar_linha_retorno(escalar) == escalar # Zero
combinar_linha_retorno(escalar) == escalar # Zero

\* a call of one public method on the idle engine; s is the engine after it
ChamadaDireta(nome, args, retorno, valores, s) ==
    /\ pc = "idle"
    /\ chamadas < MaxChamadas
    /\ chamadas' = chamadas + 1
    /\ ultima' = nome
    /\ Commit(s)
    /\ antes' = Foto(Self, fonte, chamadas + 1)
    /\ direta' = [nome |-> nome, args |-> args, retorno |-> retorno, valores |-> valores]
    /\ UNCHANGED <<io, M, pc, loc, resultado, erro, processo, fonte, construcoes,
                   M0, invM0, postos>>

chamar_trocar_linhas(linha1, linha2) ==
    /\ ChamadaDireta("trocar_linhas", <<linha1, linha2>>,
                     trocar_linhas_retorno(linha1, linha2), <<>>,
                     trocar_linhas(Self, linha1, linha2))
    /\ UNCHANGED verificacao

chamar_multiplicar_linha(linha, escalar) ==
    /\ ChamadaDireta("multiplicar_linha", <<linha, escalar>>,
                     multiplicar_linha_retorno(escalar), <<>>,
                     multiplicar_linha(Self, linha, escalar))
    /\ UNCHANGED verificacao

chamar_combinar_linha(linha_alvo, linha_origem, escalar) ==
    /\ ChamadaDireta("combinar_linha", <<linha_alvo, linha_origem, escalar>>,
                     combinar_linha_retorno(escalar), <<>>,
                     combinar_linha(Self, linha_alvo, linha_origem, escalar))
    /\ UNCHANGED verificacao

QuadradaDe(v, n) == Len(v) = n /\ \A i \in 1..n : Len(v[i]) = n

\* verificar_inversa(a, b) on two square matrices of the same size
verificar_par(a, b) ==
    /\ QuadradaDe(Valor(Self, a), Len(mats[a]))
    /\ QuadradaDe(Valor(Self, b), Len(mats[a]))
    /\ LET r == verificar_inversa(Self, a, b)
       IN  /\ ChamadaDireta("verificar_inversa", <<a, b>>, r.ok,
                            <<Valor(Self, a), Valor(Self, b)>>,
                            [Self EXCEPT !.mats = r.mats, !.lins = r.lins])
           /\ verificacao' = [ok |-> r.ok, produto |-> r.produto]

NextDireta ==
    \/ \E linha1, linha2 \in 1..Linhas(Self) : chamar_trocar_linhas(linha1, linha2)
    \/ \E linha \in 1..Linhas(Self), escalar \in Fatores :
           chamar_multiplicar_linha(linha, escalar)
    \/ \E linha_alvo, linha_origem \in 1..Linhas(Self), escalar \in Fatores :
           chamar_combinar_linha(linha_alvo, linha_origem, escalar)
    \/ \E a, b \in {M, matriz} : verificar_par(a, b)

SpecDireta == Init /\ [][NextDireta]_vars

\* ------------------------------------------------------ mathematical notions
\* v without its first row and without column j
Menor(v, j) ==
    [i \in 1..(Len(v) - 1) |->
        [k \in 1..(Len(v) - 1) |-> IF k < j THEN v[i + 1][k] ELSE v[i + 1][k + 1]]]

\* determinant by expansion along the first row
RECURSIVE Det(_)
RECURSIVE DetSoma(_, _)
DetSoma(v, j) ==
    IF j > Len(v) THEN Zero
    ELSE FrAdd(FrMul(FrMul(IF j % 2 = 1 THEN Um ELSE FrNeg(Um), v[1][j]), Det(Menor(v, j))),
               DetSoma(v, j + 1))
Det(v) == IF Len(v) = 1 THEN v[1][1] ELSE DetSoma(v, 1)

EhQuadrada(v) == Len(v) >= 1 /\ \A i \in 1..Len(v) : Len(v[i]) = Len(v)
Invertivel(v) == EhQuadrada(v) /\ Det(v) # Zero
Singular(v) == EhQuadrada(v) /\ Det(v) = Zero
NaoQuadrada(v) == Len(v) >= 1 /\ Len(v[1]) # Len(v)

\* column of the leading non-zero entry of a row, 0 for a zero row
RECURSIVE LiderDesde(_, _)
LiderDesde(linha, j) ==
    IF j > Len(linha) THEN 0
    ELSE IF linha[j] # Zero THEN j
    ELSE LiderDesde(linha, j + 1)
Lider(linha) == LiderDesde(linha, 1)

EscadaReduzida(v) ==
    /\ \A i \in 1..Len(v) :
          Lider(v[i]) # 0 =>
             /\ v[i][Lider(v[i])] = Um
             /\ \A k \in 1..Len(v) : k # i => v[k][Lider(v[i])] = Zero
    /\ \A i, k \in 1..Len(v) :
          (i < k /\ Lider(v[k]) # 0) =>
             (Lider(v[i]) # 0 /\ Lider(v[i]) < Lider(v[k]))

Terminou(nome) == pc = "idle" /\ ultima = nome

\* ------------------------------------------------------------------- claims
\* C1: the matrix escalonar() returns is in reduced row-echelon form: every
\* leading entry is 1 and alone in its column, leading columns increase
\* strictly with the row, and the zero rows are the last rows.
C1_EscadaReduzida ==
    Terminou("escalonar") => EscadaReduzida(Valor(Self, resultado))

C1_Witness ==
    /\ Terminou("escalonar")
    /\ Len(pivos) = 3
    /\ \E i \in 1..Len(historico) : historico[i].descricao[1] = "Operacao I: Permuta"
    /\ \E i \in 1..Len(historico) : historico[i].descricao[1] = "Operacao II: Normalizacao"
    /\ Valor(Self, resultado) # antes.matriz

\* C2: calcular_inversa() on an engine holding an invertible matrix A returns
\* without error, and verificar_inversa(A, result) then returns True with a
\* product equal to the identity of the same order.
C2_InversaVerificada ==
    /\ (Terminou("calcular_inversa") /\ antes.matriz = antes.fonte
           /\ Invertivel(antes.fonte))
          => (erro = "" /\ resultado # 0)
    /\ (Terminou("verificar_inversa") /\ antes.matriz = antes.fonte
           /\ Invertivel(antes.fonte))
          => (/\ verificacao.ok
              /\ Valor(Self, verificacao.produto) = Identidade(Len(antes.fonte)))

C2_Witness ==
    /\ Terminou("verificar_inversa")
    /\ antes.matriz = antes.fonte
    /\ Len(antes.fonte) = 3
    /\ verificacao.ok
    /\ Valor(Self, resultado) # antes.fonte

\* C3: calcular_inversa() on a singular square matrix raises the
\* not-invertible error and leaves self.matriz and the caller's matrix with
\* the values they had before the call.
C3_SingularFalha ==
    (Terminou("calcular_inversa") /\ Singular(antes.matriz)) =>
        /\ erro = "NotInvertible"
        /\ matriz = antes.ref
        /\ Valor(Self, matriz) = antes.matriz
        /\ Valor(Self, fonte) = antes.fonte

C3_Witness ==
    /\ Terminou("calcular_inversa")
    /\ erro = "NotInvertible"
    /\ antes.matriz = DeInteiros(<<<<1, 2, 3>>, <<4, 5, 6>>, <<7, 8, 9>>>>)
    /\ Len(historico) >= 6

\* C4: calcular_inversa() on a matrix with rows # columns raises the
\* not-square error at once: the call never reaches a row operation, logs
\* nothing, creates no list and leaves the matrix unchanged.
C4_NaoQuadradaFalha ==
    (ultima = "calcular_inversa" /\ NaoQuadrada(antes.matriz)) =>
        /\ pc = "idle"
        /\ erro = "NotSquare"
        /\ historico = <<>>
        /\ matriz = antes.ref
        /\ Valor(Self, matriz) = antes.matriz
        /\ Len(mats) = antes.nmats
        /\ Len(lins) = antes.nlins

C4_Witness ==
    /\ Terminou("calcular_inversa")
    /\ erro = "NotSquare"
    /\ Len(antes.matriz) = 3
    /\ Len(antes.matriz[1]) = 4

FalhouInversa ==
    Terminou("calcular_inversa") /\ erro \in {"NotSquare", "NotInvertible"}

\* C5 as stated: after a failed calcular_inversa() the matrix, the log and the
\* pivot list are what they were before the call.
C5_EstadoIntacto ==
    FalhouInversa =>
        /\ Valor(Self, matriz) = antes.matriz
        /\ historico = antes.historico
        /\ pivos = antes.pivos

\* C5 amended: after a failed calcular_inversa() the matrix and the pivot list
\* are what they were before the call; the log is not kept: it holds only what
\* the failed call logged, which is nothing for the not-square error.
C5_MatrizEPivosIntactos ==
    FalhouInversa =>
        /\ matriz = antes.ref
        /\ Valor(Self, matriz) = antes.matriz
        /\ pivos = antes.pivos
        /\ \A i \in 1..Len(historico) : historico[i].chamada = antes.id
        /\ erro = "NotSquare" => historico = <<>>

C5_Witness ==
    /\ FalhouInversa
    /\ erro = "NotInvertible"
    /\ antes.historico # <<>>
    /\ antes.pivos # <<>>
    /\ historico # <<>>

\* C6: inverting the inverse gives the matrix back: once calcular_inversa() has
\* returned B for an engine holding M0, calcular_inversa() on an engine holding
\* B returns without error a matrix equal to M0 entry by entry.
C6_IdaEVolta ==
    (Terminou("calcular_inversa") /\ invM0 # <<>> /\ antes.matriz = invM0) =>
        (erro = "" /\ resultado # 0 /\ Valor(Self, resultado) = M0)

C6_Witness ==
    /\ Terminou("calcular_inversa")
    /\ construcoes = 1
    /\ invM0 # <<>>
    /\ antes.matriz = invM0
    /\ invM0 # M0
    /\ Len(M0) = 3
    /\ Valor(Self, resultado) = M0

\* C7: the number of pivots escalonar() records is the same for every row
\* permutation of the same matrix.
C7_PostoInvariante ==
    \A a, b \in postos : a[2] = b[2]

C7_Witness ==
    \E a, b \in postos : a[1] # b[1] /\ a[2] = 2 /\ Len(a[1]) = 3

\* the row lists of the matrix object mat
LinhasDe(mat) == {mats[mat][i] : i \in 1..Len(mats[mat])}

\* the matrix the running call works on: A inside forma_escada, else self.matriz
Viva == IF loc.A # 0 THEN loc.A ELSE matriz

\* C8: every snapshot in a log (self.historico or processo.historico) is a
\* list of its own, shares no row list with the working matrix, and still
\* holds the values it was logged with, at every point of every run.
C8_FotosIndependentes ==
    /\ \A i \in 1..Len(historico) :
          historico[i].tipo = "matriz" =>
             /\ historico[i].matriz # matriz
             /\ LinhasDe(historico[i].matriz) \cap LinhasDe(matriz) = {}
             /\ Valor(Self, historico[i].matriz) = historico[i].valor
    /\ \A i \in 1..Len(processo.historico) :
          /\ processo.historico[i].matriz # Viva
          /\ LinhasDe(processo.historico[i].matriz) \cap LinhasDe(Viva) = {}
          /\ Valor(Self, processo.historico[i].matriz) = processo.historico[i].valor

C8_Witness ==
    /\ pc = "inv_sub"
    /\ Len(historico) >= 5
    /\ \E i \in 1..Len(historico) :
          /\ historico[i].tipo = "matriz"
          /\ historico[i].descricao[1] = "Normalizacao"
          /\ historico[i].valor # Valor(Self, matriz)

\* C9: the log holds only entries of the most recent escalonar() or
\* calcular_inversa() call on the engine.
C9_SoUltimaChamada ==
    \A i \in 1..Len(historico) : historico[i].chamada = antes.id

C9_Witness ==
    /\ pc = "idle"
    /\ antes.id = 2
    /\ antes.historico # <<>>
    /\ historico # <<>>
    /\ historico # antes.historico

\* C10: the caller's input matrix keeps its rows and its values through
\* every engine operation and through forma_escada_com_fracoes.
C10_EntradaIntacta ==
    /\ Valor(Self, M) = M0
    /\ Valor(Self, fonte) = antes.fonte

C10_Witness ==
    /\ Terminou("forma_escada")
    /\ chamadas = 2
    /\ Valor(Self, resultado) # M0
    /\ Valor(Self, matriz) # M0
    /\ Len(M0) = 3

\* C11 as stated: the matrix escalonar() returns is a list of its own: it is
\* not the engine's self.matriz and shares no row list with it.
C11_SaidaIndependente ==
    Terminou("escalonar") =>
        /\ resultado # matriz
        /\ LinhasDe(resultado) \cap LinhasDe(matriz) = {}

\* C12 as stated: building an engine from rows of unequal length fails with
\* RaggedMatrix, and no engine ever holds a matrix that is not rectangular.
C12_IrregularRecusada ==
    /\ (io.via = "direto" /\ ~Retangular(io.lida)) =>
           (erro = "RaggedMatrix" /\ ~io.motor)
    /\ io.motor => Retangular(Valor(Self, matriz))

\* the rows outside S are the same in v and w
MesmasFora(v, w, S) ==
    /\ Len(v) = Len(w)
    /\ \A i \in 1..Len(v) : i \notin S => w[i] = v[i]

Escalada(linha, f) == [j \in 1..Len(linha) |-> FrMul(linha[j], f)]

Somada(alvo, origem, f) ==
    [j \in 1..Len(alvo) |-> FrAdd(alvo[j], FrMul(f, origem[j]))]

\* C13: trocar_linhas(i, i), multiplicar_linha(i, 0) and combinar_linha(t, s, 0)
\* return False and leave the matrix as it was; with any other arguments the
\* three methods return True, trocar_linhas exchanges the two rows,
\* multiplicar_linha multiplies the row and combinar_linha adds the multiple of
\* the source row to the target row, and every row they do not name keeps
\* its value; none of them touches the log or the pivot list.
C13_PrimitivasNulas ==
    LET v == antes.matriz
        w == Valor(Self, matriz)
        a == direta.args
    IN  /\ ultima = "trocar_linhas" =>
              /\ direta.retorno = (a[1] # a[2])
              /\ MesmasFora(v, w, {a[1], a[2]})
              /\ w[a[1]] = v[a[2]]
              /\ w[a[2]] = v[a[1]]
        /\ ultima = "multiplicar_linha" =>
              /\ direta.retorno = (a[2] # Zero)
              /\ MesmasFora(v, w, {a[1]})
              /\ w[a[1]] = (IF a[2] = Zero THEN v[a[1]] ELSE Escalada(v[a[1]], a[2]))
        /\ ultima = "combinar_linha" =>
              /\ direta.retorno = (a[3] # Zero)
              /\ MesmasFora(v, w, {a[1]})
              /\ w[a[1]] = (IF a[3] = Zero THEN v[a[1]] ELSE Somada(v[a[1]], v[a[2]], a[3]))
        /\ ultima \in {"trocar_linhas", "multiplicar_linha", "combinar_linha"} =>
              /\ historico = antes.historico
              /\ pivos = antes.pivos
              /\ ~direta.retorno =>
                     (mats = SubSeq(mats, 1, antes.nmats) /\ Len(lins) = antes.nlins
                      /\ mats[matriz] = mats[antes.ref] /\ matriz = antes.ref)

C13_Witness ==
    /\ ultima = "multiplicar_linha"
    /\ direta.args[2] = Zero
    /\ ~direta.retorno
    /\ chamadas = 2
    /\ Valor(Self, matriz) # M0
    /\ \E j \in 1..Len(M0[1]) : Valor(Self, matriz)[direta.args[1]][j] # Zero

\* row r is the first of the rows de..Len(v) whose entry in column c has the
\* largest absolute value
PrimeiroMaior(v, c, de, r) ==
    /\ r \in de..Len(v)
    /\ \A k \in de..Len(v) : ~FrGt(FrAbs(v[k][c]), FrAbs(v[r][c]))
    /\ \A k \in de..(r - 1) : FrGt(FrAbs(v[r][c]), FrAbs(v[k][c]))

\* C14: when escalonar() or calcular_inversa() has chosen a pivot, the chosen
\* row holds the largest absolute value of the pivot column among the rows
\* from the pivot row to the last row, and among rows of equal absolute value
\* it is the one with the lowest index.
C14_PivoParcial ==
    /\ pc = "esc_norm" =>
           PrimeiroMaior(loc.visto, loc.pivot_col, loc.pivot_linha, loc.max_row)
    /\ pc = "inv_norm" =>
           PrimeiroMaior(loc.visto, loc.i, loc.i, loc.pivo_linha)

\* a tie below the pivot row in escalonar(): the pivot row itself is kept
C14_Witness ==
    /\ pc = "esc_norm"
    /\ loc.max_row = loc.pivot_linha
    /\ \E k \in (loc.pivot_linha + 1)..Len(loc.visto) :
           /\ loc.visto[k][loc.pivot_col] # loc.visto[loc.max_row][loc.pivot_col]
           /\ FrAbs(loc.visto[k][loc.pivot_col]) = FrAbs(loc.visto[loc.max_row][loc.pivot_col])

\* the sum of a[i][1]*b[1][j] .. a[i][k]*b[k][j]
RECURSIVE SomaProdutos(_, _, _, _, _)
SomaProdutos(a, b, i, j, k) ==
    IF k = 0 THEN Zero
    ELSE FrAdd(SomaProdutos(a, b, i, j, k - 1), FrMul(a[i][k], b[k][j]))

Produto(a, b) ==
    [i \in 1..Len(a) |-> [j \in 1..Len(a) |-> SomaProdutos(a, b, i, j, Len(a))]]

\* C15: verificar_inversa(A, B) on two n x n matrices returns the whole exact
\* product A*B, whether or not the check succeeds, with a flag that is true
\* exactly when that product is the identity; the two arguments, the engine's
\* matrix, its log and its pivot list are left as they were.
C15_VerificadorCompleto ==
    (ultima = "verificar_inversa" /\ direta.nome = "verificar_inversa") =>
        LET a == direta.valores[1]
            b == direta.valores[2]
            p == Valor(Self, verificacao.produto)
        IN  /\ p = Produto(a, b)
            /\ verificacao.ok = (p = Identidade(Len(a)))
            /\ direta.retorno = verificacao.ok
            /\ Valor(Self, direta.args[1]) = a
            /\ Valor(Self, direta.args[2]) = b
            /\ matriz = antes.ref
            /\ Valor(Self, matriz) = antes.matriz
            /\ historico = antes.historico
            /\ pivos = antes.pivos

\* a failed check whose product differs from the identity in its first row
\* already and still has its last row filled in
C15_Witness ==
    /\ ultima = "verificar_inversa"
    /\ direta.nome = "verificar_inversa"
    /\ ~verificacao.ok
    /\ chamadas = 2
    /\ LET p == Valor(Self, verificacao.produto)
       IN  /\ Len(p) >= 2
           /\ p[1] # Identidade(Len(p))[1]
           /\ \E j \in 1..Len(p) : p[Len(p)][j] # Zero

\* C16: escalonar() on the empty matrix returns at once: it returns the empty
\* matrix, the log and the pivot list are empty and no list was created;
\* forma_escada_com_fracoes on the empty matrix returns the empty matrix at
\* once as well and logs no step.
C16_VaziaSemEfeito ==
    /\ (ultima = "escalonar" /\ antes.matriz = <<>>) =>
           /\ pc = "idle"
           /\ Valor(Self, resultado) = <<>>
           /\ Valor(Self, matriz) = <<>>
           /\ historico = <<>>
           /\ pivos = <<>>
           /\ Len(mats) = antes.nmats
           /\ Len(lins) = antes.nlins
    /\ (ultima = "forma_escada" /\ M0 = <<>>) =>
           /\ pc = "idle"
           /\ Valor(Self, resultado) = <<>>
           /\ processo.historico = <<>>

C16_Witness ==
    /\ Terminou("escalonar")
    /\ antes.matriz = <<>>
    /\ chamadas = 2
    /\ resultado # 0

\* the value of the last snapshot among the first k entries of the log h
RECURSIVE UltimaFoto(_, _)
UltimaFoto(h, k) ==
    IF k = 0 THEN <<>>
    ELSE IF h[k].tipo = "matriz" THEN h[k].valor
    ELSE UltimaFoto(h, k - 1)

\* the log is the log of a whole escalonar() run on the caller's matrix
LogDeEscalonar ==
    /\ historico # <<>>
    /\ historico[1].descricao = <<"Matriz inicial:">>
    /\ historico[1].valor = M0
    /\ \E k \in 1..Len(historico) : historico[k].descricao = <<"FASE ASCENDENTE">>

\* the engine's matrix just before the backward phase was announced
FimDaDescida ==
    UltimaFoto(historico,
               CHOOSE k \in 1..Len(historico) : historico[k].descricao = <<"FASE ASCENDENTE">>)

\* C17 as stated: for the same input, the matrix forma_escada_com_fracoes
\* returns is the matrix the engine of escalonar() holds at the end of its
\* forward phase, just before the backward marker.
C17_DescidaIdentica ==
    (Terminou("forma_escada") /\ LogDeEscalonar) =>
        Valor(Self, resultado) = FimDaDescida

\* C17 amended: the two matrices have the same shape and the same leading
\* positions, each leading entry being 1: the first non-zero entry of row i
\* is in the same column in both, and a zero row in one is a zero row in
\* the other.
C17_MesmosLideres ==
    (Terminou("forma_escada") /\ LogDeEscalonar) =>
        LET f == Valor(Self, resultado)
            e == FimDaDescida
        IN  /\ Len(f) = Len(e)
            /\ \A i \in 1..Len(f) :
                  /\ Len(f[i]) = Len(e[i])
                  /\ Lider(f[i]) = Lider(e[i])
                  /\ Lider(f[i]) # 0 => (f[i][Lider(f[i])] = Um /\ e[i][Lider(e[i])] = Um)

\* both phases ran on the same 3-row input and ended in different matrices
C17_Witness ==
    /\ Terminou("forma_escada")
    /\ LogDeEscalonar
    /\ Len(M0) = 3
    /\ Valor(Self, resultado) # FimDaDescida
    /\ Valor(Self, resultado) # M0

\* the places where a fraction with denominator zero was typed
DenZero(texto) ==
    {p \in Posicoes(texto) : texto[p[1]][p[2]].t = "frac" /\ texto[p[1]][p[2]].d = 0}

\* C18 as stated: in both input paths, a typed n/0 is reported as an error
\* and no matrix is produced or handed on: nothing is read, no engine is
\* built and no run starts.
C18_ZeroRecusado ==
    (io.via \in {"console", "gui"} /\ DenZero(io.texto) # {}) =>
        /\ io.relatos # {}
        /\ io.lida = <<>>
        /\ ~io.motor
        /\ M = 0
        /\ chamadas = 0

\* C18 amended: in the GUI path a typed n/0 ends the reading with one error
\* message and no matrix: no engine is built and no run starts. In the
\* console path every n/0 is reported with its own message and the cell is
\* read as 0; the matrix is still produced, with one row per typed line.
C18_ZeroTratado ==
    /\ (io.via = "gui" /\ DenZero(io.texto) # {}) =>
           /\ io.nada
           /\ Cardinality(io.relatos) = 1
           /\ io.lida = <<>>
           /\ ~io.motor
           /\ M = 0 /\ matriz = 0 /\ mats = <<>>
           /\ chamadas = 0
    /\ io.via = "console" =>
           /\ Len(io.lida) = Len(io.texto)
           /\ M0 = io.lida
           /\ \A p \in DenZero(io.texto) :
                 /\ <<p[1], p[2], "Denominador zero">> \in io.relatos
                 /\ io.lida[p[1]][p[2]] = Zero

\* the console read 1/0 as 0 next to a non-zero element and the matrix went
\* through forma_escada_com_fracoes
C18_Witness ==
    /\ io.via = "console"
    /\ DenZero(io.texto) # {}
    /\ Terminou("forma_escada")
    /\ Len(io.lida) = 2
    /\ \E i \in 1..2, j \in 1..Len(io.lida[1]) : io.lida[i][j] # Zero
    /\ Valor(Self, resultado) # io.lida

\* C19: escalonar() on [[2, 1, -1, 8], [-3, -1, 2, -11], [-2, 1, 2, -3]]
\* returns exactly [[1, 0, 0, 2], [0, 1, 0, 3], [0, 0, 1, -1]].
C19_Exemplo ==
    (Terminou("escalonar")
     /\ antes.matriz = DeInteiros(<<<<2, 1, -1, 8>>, <<-3, -1, 2, -11>>, <<-2, 1, 2, -3>>>>)) =>
        Valor(Self, resultado) =
            DeInteiros(<<<<1, 0, 0, 2>>, <<0, 1, 0, 3>>, <<0, 0, 1, -1>>>>)

C19_Witness ==
    /\ Terminou("escalonar")
    /\ chamadas = 1
    /\ antes.matriz = DeInteiros(<<<<2, 1, -1, 8>>, <<-3, -1, 2, -11>>, <<-2, 1, 2, -3>>>>)
    /\ Len(pivos) = 3

Permutas == {"Operacao I: Permuta", "Permuta"}
Normalizacoes == {"Operacao II: Normalizacao", "Normalizacao"}
Eliminacoes == {"Operacao III: Eliminacao", "Eliminacao"}
Finais == {"Matriz na forma escalonada completa:", "Matriz inversa extraida:"}

\* the fraction a printed "n" or "n/d" stands for
Lido(t) == IF Len(t) = 1 THEN <<t[1], 1>> ELSE <<t[1], t[2]>>

\* d describes one elementary row operation: an exchange of two different
\* rows, a scaling by a non-zero factor, or the addition of a non-zero
\* multiple of a row to a different row
OpElementar(d) ==
    \/ d[1] \in Permutas /\ d[2] # d[3]
    \/ d[1] \in Normalizacoes /\ Lido(d[3]) # Zero
    \/ d[1] \in Eliminacoes /\ Lido(d[3]) # Zero /\ d[2] # d[4]

\* the matrix v after the operation d describes
Aplicada(v, d) ==
    IF d[1] \in Permutas
    THEN [v EXCEPT ![d[2]] = v[d[3]], ![d[3]] = v[d[2]]]
    ELSE IF d[1] \in Normalizacoes
    THEN [v EXCEPT ![d[2]] = Escalada(v[d[2]], Lido(d[3]))]
    ELSE [v EXCEPT ![d[2]] = Somada(v[d[2]], v[d[4]], Lido(d[3]))]

EmCurso ==
    pc \in {"esc_laco", "esc_norm", "esc_elim", "esc_sub", "esc_fim",
            "inv_laco", "inv_norm", "inv_elim", "inv_sub", "inv_fim"}

\* C20: in the log of escalonar() or calcular_inversa(), every snapshot after
\* the initial one and before the final result snapshot is the preceding
\* snapshot changed by the one elementary row operation its description
\* names, and differs from it; and every row operation is logged: while a
\* run is under way, the working matrix is the last snapshot of the log.
C20_LogRepetivel ==
    /\ \A k \in 2..Len(historico) :
          (historico[k].tipo = "matriz" /\ historico[k].descricao[1] \notin Finais) =>
              LET v == UltimaFoto(historico, k - 1)
                  d == historico[k].descricao
              IN  /\ OpElementar(d)
                  /\ historico[k].valor = Aplicada(v, d)
                  /\ historico[k].valor # v
    /\ EmCurso => Valor(Self, matriz) = UltimaFoto(historico, Len(historico))

\* a finished calcular_inversa() whose log holds an exchange, a scaling and
\* an elimination
C20_Witness ==
    /\ Terminou("calcular_inversa")
    /\ erro = ""
    /\ \E a, b, c \in 2..Len(historico) :
          /\ historico[a].descricao[1] = "Permuta"
          /\ historico[b].descricao[1] = "Normalizacao"
          /\ historico[c].descricao[1] = "Eliminacao"
          /\ a < b /\ b < c

\* the places of the backward-phase marker in the log
Marcadores == {k \in 1..Len(historico) : historico[k].descricao = <<"FASE ASCENDENTE">>}

\* d describes an operation of the forward phase: an exchange, a
\* normalisation, or an elimination in a row below the pivot row
Descendente(d) ==
    \/ d[1] \in {"Operacao I: Permuta", "Operacao II: Normalizacao"}
    \/ d[1] = "Operacao III: Eliminacao" /\ d[2] > d[4]

\* d describes an operation of the backward phase: an elimination in a row
\* above the pivot row
Ascendente(d) == d[1] = "Operacao III: Eliminacao" /\ d[2] < d[4]

\* C21: for a non-empty matrix, the log of escalonar() starts with a snapshot
\* of the matrix the run started from; the backward-phase marker is absent
\* during the forward phase and present exactly once from then on; when the
\* call has returned, the log ends with a snapshot equal to the returned
\* matrix, every snapshot of a forward-phase operation stands before the
\* marker and every snapshot of a backward-phase operation after it.
C21_EstruturaDoLog ==
    (ultima = "escalonar" /\ antes.matriz # <<>>) =>
        /\ historico[1].tipo = "matriz"
        /\ historico[1].descricao = <<"Matriz inicial:">>
        /\ historico[1].valor = antes.matriz
        /\ pc \in {"esc_laco", "esc_norm", "esc_elim"} => Marcadores = {}
        /\ pc \in {"esc_sub", "esc_fim", "idle"} => Cardinality(Marcadores) = 1
        /\ pc = "idle" =>
              LET n == Len(historico)
                  m == CHOOSE k \in Marcadores : TRUE
              IN  /\ historico[n].tipo = "matriz"
                  /\ historico[n].descricao = <<"Matriz na forma escalonada completa:">>
                  /\ historico[n].valor = Valor(Self, resultado)
                  /\ 1 < m /\ m < n
                  /\ \A j \in 2..(n - 1) :
                        historico[j].tipo = "matriz" =>
                            /\ j < m => Descendente(historico[j].descricao)
                            /\ j > m => Ascendente(historico[j].descricao)

\* a finished run with operations logged on both sides of the marker
C21_Witness ==
    /\ Terminou("escalonar")
    /\ antes.matriz # <<>>
    /\ Cardinality(Marcadores) = 1
    /\ LET m == CHOOSE k \in Marcadores : TRUE
       IN  /\ \E j \in 2..(m - 1) : historico[j].tipo = "matriz"
           /\ \E j \in (m + 1)..(Len(historico) - 1) : historico[j].tipo = "matriz"
    /\ Valor(Self, resultado) # antes.matriz

Menor2(a, b) == IF a <= b THEN a ELSE b

\* the pivot list is in row-major ascending order and no longer than the
\* matrix allows
PivosEmOrdem ==
    ultima = "escalonar" =>
        /\ \A k \in 1..Len(pivos) : pivos[k][1] = k
        /\ \A k \in 1..(Len(pivos) - 1) : pivos[k][2] < pivos[k + 1][2]
        /\ antes.matriz # <<>> =>
               /\ Len(pivos) <= Menor2(Len(antes.matriz), Len(antes.matriz[1]))
               /\ \A k \in 1..Len(pivos) : pivos[k][2] \in 1..Len(antes.matriz[1])

\* the loop of escalonar() is at a column whose entries from the pivot row
\* down are all zero
ColunaNula ==
    /\ pc = "esc_laco"
    /\ loc.pivot_linha <= Linhas(Self)
    /\ loc.pivot_col <= Colunas(Self)
    /\ \A i \in loc.pivot_linha..Linhas(Self) : Cel(Self, i, loc.pivot_col) = Zero

\* the step taken leaves the pivot list and the pivot row as they are and
\* moves to the next column
SoAvancaColuna ==
    /\ pivos' = pivos
    /\ loc'.pivot_linha = loc.pivot_linha
    /\ loc'.pivot_col = loc.pivot_col + 1
    /\ pc' = "esc_laco"

\* C22: at every point of escalonar() the k-th recorded pivot lies in row k,
\* the pivot columns increase strictly and the list has at most
\* min(rows, columns) entries; and a column whose entries from the pivot row
\* down are all zero adds no pivot and advances the pivot column only, never
\* the pivot row.
C22_PivosOrdenados ==
    /\ []PivosEmOrdem
    /\ [][ColunaNula => SoAvancaColuna]_vars

\* a finished run that skipped a column and still recorded two pivots
C22_Witness ==
    /\ Terminou("escalonar")
    /\ Len(pivos) = 2
    /\ pivos[1][2] > 1
    /\ Len(antes.matriz) = 3

\* C23 as stated: on an engine built from an invertible matrix A,
\* calcular_inversa() returns the inverse of A, whatever ran on the engine
\* before: the call succeeds and A times the returned matrix is the identity.
C23_SemVazamento ==
    (Terminou("calcular_inversa") /\ Invertivel(antes.fonte)) =>
        /\ erro = ""
        /\ Produto(antes.fonte, Valor(Self, resultado)) = Identidade(Len(antes.fonte))

\* v is in row-echelon form with normalised pivots
EscadaNormalizada(v) ==
    /\ \A i \in 1..Len(v) :
          Lider(v[i]) # 0 =>
             /\ v[i][Lider(v[i])] = Um
             /\ \A k \in (i + 1)..Len(v) : v[k][Lider(v[i])] = Zero
    /\ \A i, k \in 1..Len(v) :
          (i < k /\ Lider(v[k]) # 0) =>
             (Lider(v[i]) # 0 /\ Lider(v[i]) < Lider(v[k]))

\* C24: the matrix forma_escada_com_fracoes returns is in row-echelon form
\* with normalised pivots: the leading non-zero entry of every non-zero row is
\* 1 and lies strictly right of the leading entry of the row above, every
\* entry below a leading entry is zero and the zero rows are the last rows;
\* it has the shape of the input.
C24_FormaEscada ==
    Terminou("forma_escada") =>
        LET f == Valor(Self, resultado)
        IN  /\ EscadaNormalizada(f)
            /\ Len(f) = Len(M0)
            /\ \A i \in 1..Len(f) : Len(f[i]) = Len(M0[i])

\* a result with three leading 1s that is not in reduced form
C24_Witness ==
    /\ Terminou("forma_escada")
    /\ chamadas = 1
    /\ Len(M0) = 3
    /\ \A i \in 1..3 : Lider(Valor(Self, resultado)[i]) = i
    /\ ~EscadaReduzida(Valor(Self, resultado))
====
